---- MODULE Spec2Model ----
(***************************************************************************)
(* Model of backend_server.py: the access-key gateway, the context and     *)
(* tools-prompt resolver (store, file, built-in default) and the chat      *)
(* relay to the upstream completion API.                                   *)
(*                                                                         *)
(* Text values are sequences of one-character strings, so that strip(),    *)
(* split(',') and startswith('Bearer ') are computed as Python computes    *)
(* them.  Python's None is the value None below.                           *)
(***************************************************************************)
EXTENDS Naturals, Sequences, FiniteSets

VARIABLES
    VALID_ACCESS_KEYS,  \* list of configured keys (line 56)
    DB_TYPE,            \* "file", "mysql" or "sqlite" (line 26)
    db_engine,          \* TRUE iff the MySQL engine was created (lines 71-78)
    DEEPSEEK_API_KEY,   \* upstream credential, '' when not configured (line 43)
    pc,                 \* position of the request being handled
    req,                \* the request: endpoint, headers, query argument, body
    granted,            \* "none", then "granted" or "denied" by the key check
    status,             \* HTTP status of the response, 0 while there is none
    respKind,           \* shape of the response body
    payload,            \* error / content / usage members of a JSON response
    ident,              \* identifier handed to the resolver, None when there is none
    doc,                \* document held by the resolver / returned as JSON
    tiers,              \* resolution tiers tried so far, in order
    fetched,            \* what the store answered, NotFetched before
    fileFound,          \* what the local file held, NotRead before
    storeQueries,       \* store connections/queries attempted for the request
    fileReads,          \* local files opened for the request
    upstreamCalls,      \* HTTP calls issued to the upstream for the request
    upstreamReq,        \* JSON body of the call to the upstream, NoPayload before it
    upStatus,           \* status code the upstream answered with, 0 when none
    upText,             \* response.text of the upstream's answer, once read
    upstream,           \* "none", "open", "ended" (body read to its end),
                        \* "failed" (transport failure) or "abandoned"
    upLines,            \* raw lines iter_lines() has yielded so far
    out,                \* chunks the streaming generator has yielded so far
    raised,             \* exception class raised inside the try block, "none"
                        \* when none was
    stalled,            \* phase in which the upstream stalled for longer than
                        \* timeout=60 allows, "none" when it did not
    caller,             \* whether the caller of a streaming response has
                        \* disconnected, and how many lines were read by then
    kKey,               \* candidate handed to verify_access_key
    kResult             \* what verify_access_key returned for kKey

config == <<VALID_ACCESS_KEYS, DB_TYPE, db_engine, DEEPSEEK_API_KEY>>
response == <<status, respKind, payload>>
resolver == <<ident, doc, tiers, fetched, fileFound, storeQueries, fileReads>>
relay == <<upstreamCalls, upstreamReq, upStatus, upText, upstream, upLines, out,
          raised, stalled, caller>>
keyvars == <<kKey, kResult>>
vars == <<config, pc, req, granted, response, resolver, relay, keyvars>>

-----------------------------------------------------------------------------
(* Bounds *)

MaxEnvLen == 3   \* longest VALID_ACCESS_KEYS environment string explored
MaxKeyLen == 3   \* longest candidate key explored

-----------------------------------------------------------------------------
(* Python text helpers *)

None == <<"None">>

Whitespace == {" "}
KeyChar == {" ", "a", "b"}
EnvChar == KeyChar \cup {","}

Strings(alphabet, n) == UNION {[1..k -> alphabet] : k \in 0..n}

\* Python truthiness of an optional string: None and '' are falsy.
Falsy(s) == s = None \/ s = <<>>

RECURSIVE lstrip(_)
lstrip(s) ==
    IF s # <<>> /\ Head(s) \in Whitespace THEN lstrip(Tail(s)) ELSE s

RECURSIVE rstrip(_)
rstrip(s) ==
    IF s # <<>> /\ s[Len(s)] \in Whitespace
    THEN rstrip(SubSeq(s, 1, Len(s) - 1))
    ELSE s

strip(s) == rstrip(lstrip(s))

\* str.split(','): the pieces between commas; ''.split(',') is [''].
RECURSIVE split(_)
split(s) ==
    IF \E i \in 1..Len(s) : s[i] = ","
    THEN LET i == CHOOSE j \in 1..Len(s) :
                      s[j] = "," /\ \A k \in 1..(j - 1) : s[k] # ","
         IN <<SubSeq(s, 1, i - 1)>> \o split(SubSeq(s, i + 1, Len(s)))
    ELSE <<s>>

startswith(s, p) == Len(s) >= Len(p) /\ SubSeq(s, 1, Len(p)) = p

-----------------------------------------------------------------------------
(* Access-key validation *)

StrippedKeys(keys) == {strip(keys[i]) : i \in 1..Len(keys)}

\* verify_access_key comparing the candidate as given, untrimmed
verify_access_key_no_strip(key) ==
    IF Falsy(key) THEN FALSE
    ELSE key \in StrippedKeys(VALID_ACCESS_KEYS)

verify_access_key(key) ==
    IF Falsy(key) THEN FALSE
    ELSE strip(key) \in StrippedKeys(VALID_ACCESS_KEYS)

-----------------------------------------------------------------------------
(* Python values of the documents: a tag and an abstract content.  The     *)
(* content of a str is its text; '' is the empty str, dict or list.        *)

PyNone == [t |-> "None", v |-> ""]
PyStr(s) == [t |-> "str", v |-> s]
PyDict(s) == [t |-> "dict", v |-> s]
PyList(s) == [t |-> "list", v |-> s]

\* bool(x) in Python
truthy(x) == x.t # "None" /\ x.v # ""

\* x or y
Or(x, y) == IF truthy(x) THEN x ELSE y

\* json.loads on the texts a JSON column can hold: the parsed value, or
\* ok = FALSE when the text is not JSON (json.loads raises).
json_loads(text) ==
    CASE text = "null" -> [ok |-> TRUE, val |-> PyNone]
      [] text = "{}" -> [ok |-> TRUE, val |-> PyDict("")]
      [] text = "{\"modules\": 1}" -> [ok |-> TRUE, val |-> PyDict("modules")]
      [] text = "[]" -> [ok |-> TRUE, val |-> PyList("")]
      [] text = "[1]" -> [ok |-> TRUE, val |-> PyList("1")]
      [] OTHER -> [ok |-> FALSE, val |-> PyNone]

\* A loader's "return None"; also what json.load gives for a file holding null.
NoDoc == [top |-> "None"]

DEFAULT_CONTEXT_DATA ==
    [top |-> "dict",
     system |-> PyStr("DEFAULT_SYSTEM"),
     context |-> PyDict("report_metadata,analysis_modules"),
     instructions |-> PyStr("DEFAULT_INSTRUCTIONS")]

\* DEFAULT_CONTEXT_DATA["context"]["report_metadata"]["title"] (line 87), as
\* its code points
DefaultTitle ==
    <<31354, 38388, 36716, 24405, 32452, 28145,
      24230, 20998, 26512, 25253, 21578>>

\* x.get("report_metadata", {}).get("title") of a context value: the code
\* points of the title, <<>> when the value has none
report_metadata_title(x) ==
    IF x = DEFAULT_CONTEXT_DATA.context THEN DefaultTitle ELSE <<>>

DEFAULT_TOOLS_PROMPT ==
    [top |-> "dict",
     tools_system_prompt |-> PyStr("DEFAULT_TOOLS_SYSTEM_PROMPT"),
     recommendation_instructions |-> PyStr("DEFAULT_RECOMMENDATION_INSTRUCTIONS"),
     tools_data |-> PyDict("")]

-----------------------------------------------------------------------------
(* The environment the resolver reads: the store and the local files *)

TextColumn == {PyNone, PyStr(""), PyStr("stored text")}
JsonColumn == {PyNone, PyStr("null"), PyStr("{}"), PyStr("{\"modules\": 1}"),
               PyStr("[1]"), PyStr("{not json")}
\* a JSON column the MySQL driver hands over already parsed (lines 240-242)
ParsedColumn == {PyDict(""), PyDict("modules")}

NullRow == [c1 |-> PyNone, c2 |-> PyNone, c3 |-> PyNone]

\* Active rows matching the identifier: c1 and c3 are the two text columns,
\* c2 the JSON column, in the order of the document's fields.
Rows(db) ==
    [c1 : TextColumn,
     c2 : IF db = "mysql" THEN JsonColumn \cup ParsedColumn ELSE JsonColumn,
     c3 : TextColumn]

\* What the store does with a query: it fails (connection or query error),
\* finds no active row, or returns the one active row.
StoreOutcomes(db) ==
    {[result |-> "error", row |-> NullRow], [result |-> "none", row |-> NullRow]}
    \cup {[result |-> "row", row |-> r] : r \in Rows(db)}

ContextFileDocs ==
    {DEFAULT_CONTEXT_DATA,
     [top |-> "dict", system |-> PyStr("file system"),
      context |-> PyDict("file context"), instructions |-> PyStr("file instructions")],
     [top |-> "dict", system |-> PyStr("file system")],
     [top |-> "dict"],
     [top |-> "list"],
     NoDoc}

ToolsFileDocs ==
    {[top |-> "dict", tools_system_prompt |-> PyStr("file tools prompt"),
      recommendation_instructions |-> PyStr("file recommendation"),
      tools_data |-> PyDict("file tools")],
     [top |-> "dict", tools_data |-> PyDict("file tools")],
     [top |-> "dict"],
     [top |-> "list"],
     NoDoc}

\* A local file: absent, present but unreadable or not JSON (open or json.load
\* raises), or present and holding a JSON value.
FileOutcomes(docs) ==
    {[state |-> "absent", doc |-> NoDoc], [state |-> "broken", doc |-> NoDoc]}
    \cup {[state |-> "ok", doc |-> d] : d \in docs}

NotFetched == [result |-> "not fetched", row |-> NullRow]
\* the loader returned before contacting the store (lines 223-225, 267-269)
Unavailable == [result |-> "unavailable", row |-> NullRow]
NotRead == [state |-> "not read", doc |-> NoDoc]

-----------------------------------------------------------------------------
(* The resolver's loaders *)

\* the JSON column as the loaders see it after "if isinstance(x, str): json.loads"
DecodedColumn(c) ==
    IF c.t = "str" THEN json_loads(c.v) ELSE [ok |-> TRUE, val |-> c]

\* ContextRecord with the default's context in place of {}
ContextRecordDefaultContext(row) ==
    LET cd == DecodedColumn(row.c2)
    IN IF ~cd.ok THEN NoDoc
       ELSE [top |-> "dict",
             system |-> Or(row.c1, DEFAULT_CONTEXT_DATA.system),
             context |-> Or(cd.val, DEFAULT_CONTEXT_DATA.context),
             instructions |-> Or(row.c3, DEFAULT_CONTEXT_DATA.instructions)]

\* ContextRecord with instructions taken from the row as it is
ContextRecordKeepNull(row) ==
    LET cd == DecodedColumn(row.c2)
    IN IF ~cd.ok THEN NoDoc
       ELSE [top |-> "dict",
             system |-> Or(row.c1, DEFAULT_CONTEXT_DATA.system),
             context |-> Or(cd.val, PyDict("")),
             instructions |-> row.c3]

\* the dict built from a fetched row (lines 237-248 and 285-296); a JSON
\* column that does not decode raises inside the try block: None
ContextRecord(row) ==
    LET cd == DecodedColumn(row.c2)
    IN IF ~cd.ok THEN NoDoc
       ELSE [top |-> "dict",
             system |-> Or(row.c1, DEFAULT_CONTEXT_DATA.system),
             context |-> Or(cd.val, PyDict("")),
             instructions |-> Or(row.c3, DEFAULT_CONTEXT_DATA.instructions)]

\* lines 369-379 and 408-418
ToolsRecord(row) ==
    LET td == DecodedColumn(row.c2)
    IN IF ~td.ok THEN NoDoc
       ELSE [top |-> "dict",
             tools_system_prompt |->
                 Or(row.c1, DEFAULT_TOOLS_PROMPT.tools_system_prompt),
             recommendation_instructions |->
                 Or(row.c3, DEFAULT_TOOLS_PROMPT.recommendation_instructions),
             tools_data |-> Or(td.val, PyDict(""))]

\* Each store loader gives the document (NoDoc for None) and whether it
\* contacted the store.  available: db_engine is set (MySQL), SQLITE_PATH
\* exists (SQLite).
load_context_from_mysql(available, st) ==
    IF ~available THEN [doc |-> NoDoc, queried |-> FALSE]
    ELSE [doc |-> IF st.result = "row" THEN ContextRecord(st.row) ELSE NoDoc,
          queried |-> TRUE]

load_context_from_sqlite(available, st) ==
    IF ~available THEN [doc |-> NoDoc, queried |-> FALSE]
    ELSE [doc |-> IF st.result = "row" THEN ContextRecord(st.row) ELSE NoDoc,
          queried |-> TRUE]

load_tools_prompt_from_mysql(available, st) ==
    IF ~available THEN [doc |-> NoDoc, queried |-> FALSE]
    ELSE [doc |-> IF st.result = "row" THEN ToolsRecord(st.row) ELSE NoDoc,
          queried |-> TRUE]

load_tools_prompt_from_sqlite(available, st) ==
    IF ~available THEN [doc |-> NoDoc, queried |-> FALSE]
    ELSE [doc |-> IF st.result = "row" THEN ToolsRecord(st.row) ELSE NoDoc,
          queried |-> TRUE]

\* the file loaders returning None when the file does not open or parse
FileOrNone(f, default) ==
    IF f.state = "ok" THEN f.doc
    ELSE IF f.state = "absent" THEN default ELSE NoDoc

\* the file loaders returning an empty object when there is no file
FileOrEmpty(f, default) ==
    IF f.state = "ok" THEN f.doc
    ELSE IF f.state = "absent" THEN [top |-> "dict"] ELSE default

\* The file loaders (lines 204-210 and 344-350): the file's JSON value when
\* the file exists, opens and parses, else the built-in default.
FileOrDefault(f, default) ==
    IF f.state = "ok" THEN f.doc ELSE default

-----------------------------------------------------------------------------
(* Requests *)

BearerPrefix == <<"B", "e", "a", "r", "e", "r", " ">>
Bearer(k) == BearerPrefix \o k

XKeyHeaders == {None, <<>>, <<" ">>, <<"a", " ">>, <<"b">>}
AuthorizationHeaders ==
    {None, Bearer(<<"a">>), Bearer(<<" ", "b">>),
     <<"B", "a", "s", "i", "c", " ", "a">>}
BodyKeys == {None, <<"a">>, <<"b">>}
Identifiers == {None, <<>>, <<"r", "1">>}
\* 'default_tools_prompt' (line 579)
DefaultPromptId == <<"d", "e", "f", "a", "u", "l", "t">>

NoJson ==
    [present |-> FALSE, key |-> None, messages |-> "absent", stream |-> "absent",
     temperature |-> "absent", max_tokens |-> "absent"]

VerifyBodies ==
    {NoJson}
    \cup {[NoJson EXCEPT !.present = TRUE, !.key = k] : k \in BodyKeys}

\* bool(request.json): a JSON object is truthy iff it has a member
JsonTruthy(j) ==
    /\ j.present
    /\ \/ j.key # None
       \/ j.messages # "absent"
       \/ j.stream # "absent"
       \/ j.temperature # "absent"
       \/ j.max_tokens # "absent"

ChatBodies ==
    {NoJson}
    \cup {[NoJson EXCEPT !.present = TRUE, !.messages = m, !.stream = st,
                         !.temperature = tm[1], !.max_tokens = tm[2]] :
             m \in {"absent", "empty", "messages"},
             st \in {"absent", "true", "false"},
             tm \in {<<"absent", "absent">>, <<"0.2", "100">>}}

Protected == {"context", "tools_prompt", "chat", "chat_sync"}

Requests ==
    [endpoint : {"verify"}, xkey : XKeyHeaders, auth : AuthorizationHeaders,
     arg : {None}, json : VerifyBodies]
    \cup [endpoint : {"health"}, xkey : XKeyHeaders, auth : {None},
          arg : {None}, json : {NoJson}]
    \cup [endpoint : {"context", "tools_prompt"}, xkey : XKeyHeaders,
          auth : AuthorizationHeaders, arg : Identifiers, json : {NoJson}]
    \cup [endpoint : {"chat", "chat_sync"}, xkey : XKeyHeaders,
          auth : AuthorizationHeaders, arg : {None}, json : ChatBodies]

NoRequest ==
    [endpoint |-> "none", xkey |-> None, auth |-> None, arg |-> None,
     json |-> NoJson]

-----------------------------------------------------------------------------
(* Key extraction *)

\* get_access_key_from_request testing the header's presence, not its truth
get_access_key_from_request_presence(r) ==
    IF r.xkey # None THEN strip(r.xkey)
    ELSE LET auth_header == IF r.auth = None THEN <<>> ELSE r.auth
         IN IF startswith(auth_header, BearerPrefix)
            THEN strip(SubSeq(auth_header, 8, Len(auth_header)))
            ELSE None

get_access_key_from_request(r) ==
    IF ~Falsy(r.xkey) THEN strip(r.xkey)
    ELSE LET auth_header == IF r.auth = None THEN <<>> ELSE r.auth
         IN IF startswith(auth_header, BearerPrefix)
            THEN strip(SubSeq(auth_header, 8, Len(auth_header)))
            ELSE None

\* the key verify_key ends up checking (lines 514-518)
verify_key_candidate(r) ==
    LET key == get_access_key_from_request(r)
    IN IF Falsy(key) /\ JsonTruthy(r.json)
       THEN (IF r.json.key = None THEN <<>> ELSE r.json.key)
       ELSE key

-----------------------------------------------------------------------------
(* The upstream completion API as the relay sees it *)

MaxLines == 3   \* most lines one upstream response delivers

NoPayload ==
    [messages |-> "none", stream |-> "none", temperature |-> "none",
     max_tokens |-> "none"]

NoPayloadBody == [error |-> "", detail |-> "", content |-> "", usage |-> ""]

\* status codes the upstream answers with
UpstreamStatuses == {200, 201, 429, 500}

\* response.text of an upstream error response
ErrorTexts == {"", "upstream error body"}

\* exception classes requests raises, as the except clauses tell them apart
Failures == {"Timeout", "ConnectionError", "Exception"}

\* phases of an upstream call in which the upstream can stall: the connect,
\* the wait for the response headers (both inside requests.post), and the
\* reads of the body (iter_lines, response.text, and the body read that a
\* post without stream=True makes before it returns)
PostPhases == {"connect", "headers"}
BodyPhases == {"body"}

\* raw lines of an upstream body, as bytes: an empty line, "a", the two bytes
\* of U+00E9, and a line cut inside that character
UpstreamLines == {<<>>, <<97>>, <<195, 169>>, <<195>>}

\* bytes.decode('utf-8') for one- and two-byte sequences: the code points, or
\* ok = FALSE where Python raises UnicodeDecodeError
RECURSIVE utf8_decode(_)
utf8_decode(b) ==
    IF b = <<>> THEN [ok |-> TRUE, text |-> <<>>]
    ELSE IF b[1] < 128
    THEN LET r == utf8_decode(Tail(b))
         IN [ok |-> r.ok, text |-> <<b[1]>> \o r.text]
    ELSE IF /\ b[1] \in 194..223
            /\ Len(b) >= 2
            /\ b[2] \in 128..191
    THEN LET r == utf8_decode(SubSeq(b, 3, Len(b)))
         IN [ok |-> r.ok,
             text |-> <<(b[1] - 192) * 64 + (b[2] - 128)>> \o r.text]
    ELSE [ok |-> FALSE, text |-> <<>>]

\* str.encode('utf-8'), which the WSGI layer applies to every yielded str
RECURSIVE utf8_encode(_)
utf8_encode(t) ==
    IF t = <<>> THEN <<>>
    ELSE (IF t[1] < 128 THEN <<t[1]>>
          ELSE <<192 + (t[1] \div 64), 128 + (t[1] % 64)>>)
         \o utf8_encode(Tail(t))

Newline == 10

\* chunks the generator yields
LineChunk(text) == [kind |-> "line", text |-> text \o <<Newline>>, detail |-> ""]
ErrorChunk(kind, detail) == [kind |-> kind, text |-> <<>>, detail |-> detail]

\* the event of each except clause (lines 651-656)
FailureChunk(e) ==
    CASE e = "Timeout" -> ErrorChunk("timeout_error", "")
      [] e = "ConnectionError" -> ErrorChunk("network_error", "")
      [] OTHER -> ErrorChunk("server_error", e)

\* dict.get without a default
GetNoDefault(v, default) == v

\* dict.get with its default
Get(v, default) == IF v = "absent" THEN default ELSE v

\* what the upstream's JSON answer to a synchronous call looks like
SyncResults ==
    {"content and usage", "no usage", "no choices", "empty choices",
     "choice without message", "message without content", "not json"}

-----------------------------------------------------------------------------
(* The server: configuration at start-up, then one request *)

\* the caller of a request, still connected
Connected == [gone |-> FALSE, read |-> 0]

\* VALID_ACCESS_KEYS environment strings: one key; two keys, the first
\* padded; a key followed by a comma; the empty string
ConfiguredKeyStrings ==
    {<<"a">>, <<" ", "a", " ", ",", "b">>, <<"b", ",">>, <<>>}

Idle ==
    /\ req = NoRequest
    /\ granted = "none"
    /\ status = 0
    /\ respKind = "none"
    /\ payload = NoPayloadBody
    /\ ident = None
    /\ doc = NoDoc
    /\ tiers = <<>>
    /\ fetched = NotFetched
    /\ fileFound = NotRead
    /\ storeQueries = 0
    /\ fileReads = 0
    /\ upstreamCalls = 0
    /\ upstreamReq = NoPayload
    /\ upStatus = 0
    /\ upText = ""
    /\ upstream = "none"
    /\ upLines = <<>>
    /\ out = <<>>
    /\ raised = "none"
    /\ stalled = "none"
    /\ caller = Connected

Init ==
    /\ \E env \in ConfiguredKeyStrings : VALID_ACCESS_KEYS = split(env)
    /\ DB_TYPE \in {"file", "mysql", "sqlite"}
    /\ db_engine \in BOOLEAN
    /\ db_engine => DB_TYPE = "mysql"
    /\ DEEPSEEK_API_KEY \in {<<>>, <<"s", "k">>}
    /\ pc = "idle"
    /\ Idle
    /\ kKey = None
    /\ kResult = FALSE

Respond(code, kind) ==
    /\ status' = code
    /\ respKind' = kind
    /\ pc' = "done"

\* Flask routes the request to its view function.
Receive ==
    /\ pc = "idle"
    /\ \E r \in Requests :
          /\ req' = r
          /\ pc' = IF r.endpoint \in Protected THEN "require_auth" ELSE r.endpoint
    /\ UNCHANGED <<config, granted, response, resolver, relay, keyvars>>

\* decorated_function calling the view function whatever the key
require_auth_unchecked ==
    /\ pc = "require_auth"
    /\ granted' = IF verify_access_key(get_access_key_from_request(req))
                  THEN "granted" ELSE "denied"
    /\ pc' = req.endpoint
    /\ UNCHANGED <<config, req, response, resolver, relay, keyvars>>

\* decorated_function (lines 498-502): 401 unless the key validates, else the
\* view function is called.
require_auth ==
    /\ pc = "require_auth"
    /\ IF ~verify_access_key(get_access_key_from_request(req))
       THEN /\ granted' = "denied"
            /\ Respond(401, "error")
       ELSE /\ granted' = "granted"
            /\ pc' = req.endpoint
            /\ UNCHANGED <<status, respKind>>
    /\ UNCHANGED <<config, req, payload, resolver, relay, keyvars>>

\* POST /api/verify (lines 508-529).  request.json of a request without a
\* JSON body is None in some Flask releases and raises 415 in others.
verify_key ==
    /\ pc = "verify"
    /\ \/ IF verify_access_key(verify_key_candidate(req))
          THEN /\ granted' = "granted"
               /\ Respond(200, "valid")
          ELSE /\ granted' = "denied"
               /\ Respond(401, "invalid")
       \/ /\ Falsy(get_access_key_from_request(req))
          /\ ~req.json.present
          /\ granted' = "denied"
          /\ Respond(415, "error")
    /\ UNCHANGED <<config, req, payload, resolver, relay, keyvars>>

\* GET /api/health (lines 532-545)
health_check ==
    /\ pc = "health"
    /\ Respond(200, "health")
    /\ UNCHANGED <<config, req, granted, payload, resolver, relay, keyvars>>

\* db_engine is set (MySQL), SQLITE_PATH exists (SQLite)
StoreAvailable(exists) ==
    IF DB_TYPE = "mysql" THEN db_engine ELSE exists

\* line 561 without the report_id test
UseStoreWhateverId(report_id) ==
    DB_TYPE \in {"mysql", "sqlite"}

\* line 561
UseStore(report_id) ==
    ~Falsy(report_id) /\ DB_TYPE \in {"mysql", "sqlite"}

\* the file tier tried whatever the store returned
StoreMissAlways(d) == TRUE

\* "is None" of lines 323 and 445
StoreMiss(d) == d = NoDoc

\* GET /api/context (lines 558-566): which loader the view function calls.
get_context ==
    /\ pc = "context"
    /\ ident' = req.arg
    /\ pc' = IF UseStore(req.arg)
             THEN "load_context_by_report_id"
             ELSE "load_context_data"
    /\ UNCHANGED <<config, req, granted, response, doc, tiers, fetched,
                   fileFound, storeQueries, fileReads, relay, keyvars>>

\* load_context_by_report_id up to its file fallback (lines 315-323)
load_context_by_report_id ==
    /\ pc = "load_context_by_report_id"
    /\ \E exists \in BOOLEAN, st \in StoreOutcomes(DB_TYPE) :
          LET got == CASE DB_TYPE = "mysql" ->
                            load_context_from_mysql(StoreAvailable(exists), st)
                       [] DB_TYPE = "sqlite" ->
                            load_context_from_sqlite(StoreAvailable(exists), st)
                       [] OTHER -> [doc |-> NoDoc, queried |-> FALSE]
          IN /\ doc' = got.doc
             /\ storeQueries' = storeQueries + (IF got.queried THEN 1 ELSE 0)
             /\ fetched' = IF got.queried THEN st ELSE Unavailable
             /\ tiers' = IF DB_TYPE \in {"mysql", "sqlite"}
                         THEN Append(tiers, "store") ELSE tiers
             /\ IF StoreMiss(got.doc)
                THEN /\ pc' = "load_context_data"
                     /\ UNCHANGED <<status, respKind>>
                ELSE Respond(200, "json")
    /\ UNCHANGED <<config, req, granted, payload, ident, fileFound, fileReads,
                   relay, keyvars>>

\* load_context_data (lines 199-210), whose result the view function returns
load_context_data ==
    /\ pc = "load_context_data"
    /\ \E f \in FileOutcomes(ContextFileDocs) :
          /\ doc' = FileOrDefault(f, DEFAULT_CONTEXT_DATA)
          /\ fileReads' = fileReads + (IF f.state # "absent" THEN 1 ELSE 0)
          /\ fileFound' = f
          /\ tiers' = tiers \o (IF f.state = "ok"
                                THEN <<"file">> ELSE <<"file", "default">>)
    /\ Respond(200, "json")
    /\ UNCHANGED <<config, req, granted, payload, ident, fetched, storeQueries,
                   relay, keyvars>>

\* GET /api/tools_prompt (lines 579-581)
get_tools_prompt ==
    /\ pc = "tools_prompt"
    /\ ident' = IF req.arg = None THEN DefaultPromptId ELSE req.arg
    /\ pc' = "load_tools_prompt"
    /\ UNCHANGED <<config, req, granted, response, doc, tiers, fetched,
                   fileFound, storeQueries, fileReads, relay, keyvars>>

\* load_tools_prompt up to its file fallback (lines 437-445)
load_tools_prompt ==
    /\ pc = "load_tools_prompt"
    /\ \E exists \in BOOLEAN, st \in StoreOutcomes(DB_TYPE) :
          LET got == CASE DB_TYPE = "mysql" ->
                            load_tools_prompt_from_mysql(StoreAvailable(exists), st)
                       [] DB_TYPE = "sqlite" ->
                            load_tools_prompt_from_sqlite(StoreAvailable(exists), st)
                       [] OTHER -> [doc |-> NoDoc, queried |-> FALSE]
          IN /\ doc' = got.doc
             /\ storeQueries' = storeQueries + (IF got.queried THEN 1 ELSE 0)
             /\ fetched' = IF got.queried THEN st
                           ELSE IF DB_TYPE \in {"mysql", "sqlite"}
                           THEN Unavailable ELSE NotFetched
             /\ tiers' = IF DB_TYPE \in {"mysql", "sqlite"}
                         THEN Append(tiers, "store") ELSE tiers
             /\ IF StoreMiss(got.doc)
                THEN /\ pc' = "load_tools_prompt_from_file"
                     /\ UNCHANGED <<status, respKind>>
                ELSE Respond(200, "json")
    /\ UNCHANGED <<config, req, granted, payload, ident, fileFound, fileReads,
                   relay, keyvars>>

\* load_tools_prompt_from_file (lines 342-350)
load_tools_prompt_from_file ==
    /\ pc = "load_tools_prompt_from_file"
    /\ \E f \in FileOutcomes(ToolsFileDocs) :
          /\ doc' = FileOrDefault(f, DEFAULT_TOOLS_PROMPT)
          /\ fileReads' = fileReads + (IF f.state # "absent" THEN 1 ELSE 0)
          /\ fileFound' = f
          /\ tiers' = tiers \o (IF f.state = "ok"
                                THEN <<"file">> ELSE <<"file", "default">>)
    /\ Respond(200, "json")
    /\ UNCHANGED <<config, req, granted, payload, ident, fetched, storeQueries,
                   relay, keyvars>>

\* the status test taking every code below 400 for a success
UpstreamFailedOnlyErrors(code) == code >= 400

\* the status test taking every code below 500 for a success
UpstreamFailedServerErrors(code) == code >= 500

\* line 640, line 707
UpstreamFailed(code) == code # 200

\* chat without the test of DEEPSEEK_API_KEY (lines 602-603)
chat_credential_unchecked ==
    /\ pc = "chat"
    /\ IF ~req.json.present
       THEN /\ Respond(400, "error")
            /\ payload' = [payload EXCEPT !.error = "bad request format"]
       ELSE IF Get(req.json.messages, "empty") = "empty"
       THEN /\ Respond(400, "error")
            /\ payload' = [payload EXCEPT !.error = "messages empty"]
       ELSE /\ status' = 200
            /\ respKind' = "stream"
            /\ pc' = "generate_stream"
            /\ UNCHANGED payload
    /\ UNCHANGED <<config, req, granted, resolver, relay, keyvars>>

\* POST /api/chat up to the Response object (lines 601-666): the checks, then
\* a 200 event-stream response whose body generate_stream() produces.
chat ==
    /\ pc = "chat"
    /\ IF Falsy(DEEPSEEK_API_KEY)
       THEN /\ Respond(500, "error")
            /\ payload' = [payload EXCEPT !.error = "api key not configured"]
       ELSE IF ~req.json.present
       THEN /\ Respond(400, "error")
            /\ payload' = [payload EXCEPT !.error = "bad request format"]
       ELSE IF Get(req.json.messages, "empty") = "empty"
       THEN /\ Respond(400, "error")
            /\ payload' = [payload EXCEPT !.error = "messages empty"]
       ELSE /\ status' = 200
            /\ respKind' = "stream"
            /\ pc' = "generate_stream"
            /\ UNCHANGED payload
    /\ UNCHANGED <<config, req, granted, resolver, relay, keyvars>>

\* What requests raises when the upstream stalls for longer than timeout=60
\* (lines 637, 704), a bound on the connect and on each read, not on the whole
\* call: ConnectTimeout or ReadTimeout, both Timeout, while connecting or
\* waiting for the response headers; once the body is being read,
\* Response.iter_content re-raises the read timeout as
\* requests.exceptions.ConnectionError, which is not a Timeout.
StallRaises(phase) ==
    IF phase \in PostPhases THEN "Timeout" ELSE "ConnectionError"

\* a failure of an upstream call: the exception class, and the phase of the
\* stall behind it, "none" when the cause was not a stall
Failure(e, phase) == [e |-> e, stalled |-> phase]

\* the ways an upstream call can fail in the given phases: a stall past the
\* timeout, or a failure that is not a timeout
FailuresIn(phases) ==
    {Failure(StallRaises(ph), ph) : ph \in phases}
        \cup {Failure(e, "none") : e \in Failures \ {"Timeout"}}

\* generate_stream posting a second time when the first post fails
generate_stream_retrying ==
    /\ pc = "generate_stream"
    /\ upstreamCalls' = upstreamCalls + 1
    /\ upstreamReq' = [messages |-> req.json.messages,
                       stream |-> Get(req.json.stream, "true"),
                       temperature |-> Get(req.json.temperature, "0.7"),
                       max_tokens |-> Get(req.json.max_tokens, "2000")]
    /\ \/ \E f \in FailuresIn(PostPhases) :
             IF upstreamCalls = 0
             THEN UNCHANGED <<out, upstream, pc, upStatus, raised, stalled>>
             ELSE /\ raised' = f.e
                  /\ stalled' = f.stalled
                  /\ out' = Append(out, FailureChunk(f.e))
                  /\ upstream' = "failed"
                  /\ pc' = "done"
                  /\ UNCHANGED upStatus
       \/ \E code \in UpstreamStatuses :
             /\ upStatus' = code
             /\ upstream' = "open"
             /\ pc' = IF UpstreamFailed(code) THEN "error_text" ELSE "iter_lines"
             /\ UNCHANGED <<out, raised, stalled>>
    /\ UNCHANGED <<config, req, granted, response, resolver, upText, upLines,
                   caller, keyvars>>

\* generate_stream: requests.post and the status check (lines 622-640)
generate_stream ==
    /\ pc = "generate_stream"
    /\ upstreamCalls' = upstreamCalls + 1
    /\ upstreamReq' = [messages |-> req.json.messages,
                       stream |-> Get(req.json.stream, "true"),
                       temperature |-> Get(req.json.temperature, "0.7"),
                       max_tokens |-> Get(req.json.max_tokens, "2000")]
    /\ \/ \E f \in FailuresIn(PostPhases) :
             /\ raised' = f.e
             /\ stalled' = f.stalled
             /\ out' = Append(out, FailureChunk(f.e))
             /\ upstream' = "failed"
             /\ pc' = "done"
             /\ UNCHANGED upStatus
       \/ \E code \in UpstreamStatuses :
             /\ upStatus' = code
             /\ upstream' = "open"
             /\ pc' = IF UpstreamFailed(code) THEN "error_text" ELSE "iter_lines"
             /\ UNCHANGED <<out, raised, stalled>>
    /\ UNCHANGED <<config, req, granted, response, resolver, upText, upLines,
                   caller, keyvars>>

\* generate_stream on a non-200 answer (lines 640-643): response.text reads
\* the body, which can fail like any other read from the upstream.
error_text ==
    /\ pc = "error_text"
    /\ \/ \E text \in ErrorTexts :
             /\ upText' = text
             /\ upstream' = "ended"
             /\ out' = Append(out, ErrorChunk("api_error", text))
             /\ UNCHANGED <<raised, stalled>>
       \/ \E f \in FailuresIn(BodyPhases) :
             /\ raised' = f.e
             /\ stalled' = f.stalled
             /\ out' = Append(out, FailureChunk(f.e))
             /\ upstream' = "failed"
             /\ UNCHANGED upText
    /\ pc' = "done"
    /\ UNCHANGED <<config, req, granted, response, resolver, upstreamCalls,
                   upstreamReq, upStatus, upLines, caller, keyvars>>

\* What is left of the upstream connection when the server closes the
\* generator (GeneratorExit at the yield, which no except clause catches):
\* the code never calls response.close() and uses no with block, so the
\* connection stays open until the response object is finalised, if ever.
CloseOutcomes == {"open", "closed"}

\* generate_stream's loop over response.iter_lines() (lines 646-649): one
\* iteration, the end of the body, or a failure of the read.  A chunk yielded
\* to a caller that has gone is where the server may find the connection
\* broken and close the generator.
iter_lines ==
    /\ pc = "iter_lines"
    /\ \/ /\ Len(upLines) < MaxLines
          /\ \E line \in UpstreamLines :
                /\ upLines' = Append(upLines, line)
                /\ IF line = <<>>
                   THEN UNCHANGED <<out, pc, upstream, raised, stalled>>
                   ELSE LET decoded_line == utf8_decode(line)
                        IN IF decoded_line.ok
                           THEN /\ out' = Append(out, LineChunk(decoded_line.text))
                                /\ UNCHANGED <<raised, stalled>>
                                /\ \/ UNCHANGED <<pc, upstream>>
                                   \/ /\ caller.gone
                                      /\ pc' = "done"
                                      /\ upstream' \in CloseOutcomes
                           ELSE /\ raised' = "UnicodeDecodeError"
                                /\ UNCHANGED stalled
                                /\ out' = Append(out,
                                       FailureChunk("UnicodeDecodeError"))
                                /\ upstream' = "abandoned"
                                /\ pc' = "done"
       \/ /\ pc' = "done"
          /\ upstream' = "ended"
          /\ UNCHANGED <<out, upLines, raised, stalled>>
       \/ /\ \E f \in FailuresIn(BodyPhases) :
                /\ raised' = f.e
                /\ stalled' = f.stalled
                /\ out' = Append(out, FailureChunk(f.e))
          /\ upstream' = "failed"
          /\ pc' = "done"
          /\ UNCHANGED upLines
    /\ UNCHANGED <<config, req, granted, response, resolver, upstreamCalls,
                   upstreamReq, upStatus, upText, caller, keyvars>>

\* The caller of a streaming response goes away while the body is relayed
\* (the Response of lines 658-666 is still being iterated).  Nothing in the
\* generator observes it.
disconnect ==
    /\ pc = "iter_lines"
    /\ ~caller.gone
    /\ caller' = [gone |-> TRUE, read |-> Len(upLines)]
    /\ UNCHANGED <<config, pc, req, granted, response, resolver, upstreamCalls,
                   upstreamReq, upStatus, upText, upstream, upLines, out, raised,
                   stalled, keyvars>>

\* chat_sync without the test of messages (line 687)
chat_sync_messages_unchecked ==
    /\ pc = "chat_sync"
    /\ IF Falsy(DEEPSEEK_API_KEY)
       THEN /\ Respond(500, "error")
            /\ payload' = [payload EXCEPT !.error = "api key not configured"]
       ELSE IF ~req.json.present
       THEN /\ Respond(400, "error")
            /\ payload' = [payload EXCEPT !.error = "bad request format"]
       ELSE /\ pc' = "chat_sync_post"
            /\ UNCHANGED <<status, respKind, payload>>
    /\ UNCHANGED <<config, req, granted, resolver, relay, keyvars>>

\* POST /api/chat/sync up to the upstream call (lines 676-688)
chat_sync ==
    /\ pc = "chat_sync"
    /\ IF Falsy(DEEPSEEK_API_KEY)
       THEN /\ Respond(500, "error")
            /\ payload' = [payload EXCEPT !.error = "api key not configured"]
       ELSE IF ~req.json.present
       THEN /\ Respond(400, "error")
            /\ payload' = [payload EXCEPT !.error = "bad request format"]
       ELSE IF Get(req.json.messages, "empty") = "empty"
       THEN /\ Respond(400, "error")
            /\ payload' = [payload EXCEPT !.error = "messages empty"]
       ELSE /\ pc' = "chat_sync_post"
            /\ UNCHANGED <<status, respKind, payload>>
    /\ UNCHANGED <<config, req, granted, resolver, relay, keyvars>>

\* first choice's message content of a parsed answer (line 711); "IndexError"
\* where the expression raises
SyncContent(result) ==
    CASE result \in {"content and usage", "no usage"} -> "answer"
      [] result = "empty choices" -> "IndexError"
      [] OTHER -> ""

\* the status of each except clause (lines 718-723)
SyncFailureStatus(e) ==
    CASE e = "Timeout" -> 504
      [] e = "ConnectionError" -> 502
      [] OTHER -> 500

\* POST /api/chat/sync: the upstream call and the response (lines 690-723)
chat_sync_post ==
    /\ pc = "chat_sync_post"
    /\ upstreamCalls' = upstreamCalls + 1
    /\ upstreamReq' = [messages |-> req.json.messages,
                       stream |-> "false",
                       temperature |-> Get(req.json.temperature, "0.7"),
                       max_tokens |-> Get(req.json.max_tokens, "2000")]
    /\ \/ \E f \in FailuresIn(PostPhases \cup BodyPhases) :
             /\ raised' = f.e
             /\ stalled' = f.stalled
             /\ Respond(SyncFailureStatus(f.e), "error")
             /\ payload' = [payload EXCEPT !.error = FailureChunk(f.e).kind]
             /\ upstream' = "failed"
             /\ UNCHANGED <<upStatus, upText>>
       \/ \E code \in UpstreamStatuses, text \in ErrorTexts :
             /\ UpstreamFailed(code)
             /\ upStatus' = code
             /\ upText' = text
             /\ upstream' = "ended"
             /\ Respond(code, "error")
             /\ payload' = [payload EXCEPT !.error = "api_error", !.detail = text]
             /\ UNCHANGED <<raised, stalled>>
       \/ \E code \in UpstreamStatuses, result \in SyncResults :
             /\ ~UpstreamFailed(code)
             /\ upStatus' = code
             /\ upText' = result
             /\ upstream' = "ended"
             /\ UNCHANGED stalled
             /\ IF result = "not json" \/ SyncContent(result) = "IndexError"
                THEN LET e == IF result = "not json" THEN "JSONDecodeError"
                              ELSE "IndexError"
                     IN /\ raised' = e
                        /\ Respond(SyncFailureStatus(e), "error")
                        /\ payload' = [payload EXCEPT
                               !.error = FailureChunk(e).kind]
                ELSE /\ UNCHANGED raised
                     /\ Respond(200, "content")
                     /\ payload' = [payload EXCEPT
                            !.content = SyncContent(result),
                            !.usage = IF result = "content and usage"
                                      THEN "usage" ELSE "{}"]
    /\ UNCHANGED <<config, req, granted, resolver, upLines, out, caller,
                   keyvars>>

Next ==
    \/ Receive
    \/ require_auth
    \/ verify_key
    \/ health_check
    \/ get_context
    \/ load_context_by_report_id
    \/ load_context_data
    \/ get_tools_prompt
    \/ load_tools_prompt
    \/ load_tools_prompt_from_file
    \/ chat
    \/ generate_stream
    \/ error_text
    \/ iter_lines
    \/ disconnect
    \/ chat_sync
    \/ chat_sync_post

Spec == Init /\ [][Next]_vars
-----------------------------------------------------------------------------
(* SpecKey: verify_access_key as a pure function of the candidate and of   *)
(* the configured key list.                                                *)

KeyInit ==
    /\ \E env \in Strings(EnvChar, MaxEnvLen) : VALID_ACCESS_KEYS = split(env)
    /\ DB_TYPE = "file"
    /\ db_engine = FALSE
    /\ DEEPSEEK_API_KEY = <<>>
    /\ pc = "verify_access_key"
    /\ Idle
    /\ kKey = None
    /\ kResult = FALSE

\* one call of verify_access_key
KeyVerify ==
    /\ pc = "verify_access_key"
    /\ \E k \in Strings(KeyChar, MaxKeyLen) \cup {None} :
          /\ kKey' = k
          /\ kResult' = verify_access_key(k)
    /\ UNCHANGED <<config, pc, req, granted, response, resolver, relay>>

KeyNext == KeyVerify

SpecKey == KeyInit /\ [][KeyNext]_vars

-----------------------------------------------------------------------------
(* Claims about access-key validation (SpecKey) *)

\* t is s without its leading and trailing whitespace, stated without strip().
IsTrimOf(t, s) ==
    \E i \in 1..(Len(s) + 1), j \in 0..Len(s) :
        /\ t = SubSeq(s, i, j)
        /\ \A k \in 1..(i - 1) : s[k] \in Whitespace
        /\ \A k \in (j + 1)..Len(s) : s[k] \in Whitespace
        /\ t # <<>> => (t[1] \notin Whitespace /\ t[Len(t)] \notin Whitespace)

TrimmedMember(k, keys) ==
    \E n \in 1..Len(keys), i \in 1..(Len(k) + 1), j \in 0..Len(k) :
        /\ IsTrimOf(SubSeq(k, i, j), k)
        /\ IsTrimOf(SubSeq(k, i, j), keys[n])

\* C1 (as stated): for every candidate K, null and empty included, and every
\* configured list S, verify_access_key(K) is true iff trim(K) is one of the
\* trimmed entries of S, and verify_access_key(null) and verify_access_key("")
\* are false.
C1_AsStated ==
    /\ kKey # None => (kResult <=> TrimmedMember(kKey, VALID_ACCESS_KEYS))
    /\ kKey \in {None, <<>>} => ~kResult

\* C1 (amended): for every candidate K that is neither null nor empty,
\* verify_access_key(K) is true iff trim(K) is one of the trimmed entries of S;
\* verify_access_key(null) and verify_access_key("") are false whatever S holds
\* (also when S holds a blank entry, whose trimmed form is the empty string).
C1_KeyValidation ==
    /\ kKey \notin {None, <<>>} =>
           (kResult <=> TrimmedMember(kKey, VALID_ACCESS_KEYS))
    /\ kKey \in {None, <<>>} => ~kResult

\* A padded candidate accepted against a padded configured entry.
C1_Witness ==
    /\ kResult
    /\ kKey # None /\ kKey # <<>> /\ Head(kKey) \in Whitespace
    /\ \E n \in 1..Len(VALID_ACCESS_KEYS) :
          /\ VALID_ACCESS_KEYS[n] # <<>>
          /\ VALID_ACCESS_KEYS[n][Len(VALID_ACCESS_KEYS[n])] \in Whitespace
          /\ IsTrimOf(<<"a">>, VALID_ACCESS_KEYS[n])

-----------------------------------------------------------------------------
(* Claims about the gateway (Spec) *)

KeyChecked == req.endpoint \in Protected \cup {"verify"}

HasBearer(r) == r.auth # None /\ startswith(r.auth, BearerPrefix)
BearerKey(r) == strip(SubSeq(r.auth, Len(BearerPrefix) + 1, Len(r.auth)))

\* the candidate as C3 states it: the first source that is present
C3_StatedCandidate(r) ==
    IF r.xkey # None THEN strip(r.xkey)
    ELSE IF HasBearer(r) THEN BearerKey(r)
    ELSE IF r.endpoint = "verify" /\ r.json.present /\ r.json.key # None
    THEN r.json.key
    ELSE None

\* C3 (as stated): the candidate key is the X-Access-Key header if present,
\* else the Authorization header without its 'Bearer ' prefix, else (on
\* /api/verify only) the JSON body field 'key'; a lower source is consulted
\* only when every higher one yields no key, so the request is accepted iff
\* that candidate validates.
C3_AsStated ==
    (KeyChecked /\ granted # "none")
    => (granted = "granted" <=> verify_access_key(C3_StatedCandidate(req)))

\* the key the two headers give: a header that is absent or empty gives none
C3_HeaderKey(r) ==
    IF r.xkey \notin {None, <<>>} THEN strip(r.xkey)
    ELSE IF HasBearer(r) THEN BearerKey(r)
    ELSE None

C3_AmendedCandidate(r) ==
    IF /\ r.endpoint = "verify"
       /\ C3_HeaderKey(r) \in {None, <<>>}
       /\ JsonTruthy(r.json)
    THEN (IF r.json.key = None THEN <<>> ELSE r.json.key)
    ELSE C3_HeaderKey(r)

\* C3 (amended): the candidate key is the X-Access-Key header if it is present
\* and not empty, else the Authorization header without its 'Bearer ' prefix;
\* on /api/verify only, the JSON body field 'key' is taken when the headers
\* give no key or one that is blank after trimming (even if the Authorization
\* header was never looked at).  The request is accepted iff that candidate
\* validates, so a request with an invalid X-Access-Key that is not blank and
\* a valid Bearer key (or valid body key) is rejected.
C3_KeyPrecedence ==
    (KeyChecked /\ granted # "none")
    => /\ granted = "granted" <=> verify_access_key(C3_AmendedCandidate(req))
       /\ (/\ req.xkey # None
           /\ strip(req.xkey) # <<>>
           /\ ~verify_access_key(req.xkey)) => granted = "denied"

\* An invalid, non-blank X-Access-Key beside a valid Bearer key: rejected.
C3_Witness ==
    /\ granted = "denied"
    /\ req.xkey = <<"b">>
    /\ HasBearer(req)
    /\ verify_access_key(BearerKey(req))
    /\ ~verify_access_key(req.xkey)

-----------------------------------------------------------------------------
(* Claims about the resolver (Spec) *)

Resolving == req.endpoint \in {"context", "tools_prompt"} /\ granted = "granted"
Answered == Resolving /\ pc = "done"
DefaultDoc ==
    IF req.endpoint = "context" THEN DEFAULT_CONTEXT_DATA ELSE DEFAULT_TOOLS_PROMPT
StoreConfigured == DB_TYPE \in {"mysql", "sqlite"}

\* the store answered with an active row whose JSON column decodes
StoreFound == fetched.result = "row" /\ DecodedColumn(fetched.row.c2).ok
\* the lookup failed: connection or query error, or a record that does not decode
StoreBroken ==
    \/ fetched.result = "error"
    \/ fetched.result = "row" /\ ~DecodedColumn(fetched.row.c2).ok

\* C4: resolution fallback is total for both kinds: when the store lookup
\* fails (connection or query error, or undecodable record) and the local
\* file is unreadable or holds invalid JSON, the resolver returns the built-in
\* default document of that kind, and no resolution ends in an error response.
C4_FallbackTotal ==
    Answered
    => /\ status = 200 /\ respKind = "json"
       /\ (StoreBroken /\ fileFound.state = "broken") => doc = DefaultDoc

\* Both kinds answered from the default after a broken store and a broken file.
C4_Witness ==
    /\ Answered
    /\ req.endpoint = "tools_prompt"
    /\ fetched.result = "row" /\ ~DecodedColumn(fetched.row.c2).ok
    /\ fileFound.state = "broken"
    /\ doc = DEFAULT_TOOLS_PROMPT

\* C5: the tiers are tried in the strict order store, file, built-in default,
\* each only if the previous one yielded no document: a document found in the
\* store is returned without reading the file, a readable file is returned in
\* preference to the default, and the default is returned only when both
\* earlier tiers yield nothing.
C5_TierOrder ==
    Resolving
    => /\ tiers \in {<<>>, <<"store">>, <<"store", "file">>,
                     <<"store", "file", "default">>, <<"file">>,
                     <<"file", "default">>}
       /\ StoreFound => /\ pc = "done"
                        /\ tiers = <<"store">>
                        /\ fileFound = NotRead /\ fileReads = 0
                        /\ doc.top = "dict"
       /\ fileFound # NotRead => ~StoreFound
       /\ fileFound.state = "ok" => doc = fileFound.doc /\ tiers[Len(tiers)] = "file"
       /\ (tiers # <<>> /\ tiers[Len(tiers)] = "default")
              => /\ ~StoreFound
                 /\ fileFound.state \in {"absent", "broken"}
                 /\ doc = DefaultDoc

\* A document found in the store was returned and the file never opened.
C5_Witness ==
    /\ Answered
    /\ StoreFound
    /\ tiers = <<"store">>
    /\ fileReads = 0
    /\ storeQueries = 1

\* C6 (as stated): for both kinds alike the store is queried only when a store
\* is configured and the request supplied an identifier; a request without an
\* identifier never queries the store and goes straight to the file tier.
C6_AsStated ==
    req.endpoint \in {"context", "tools_prompt"}
    => /\ storeQueries > 0 => (StoreConfigured /\ req.arg # None)
       /\ (req.arg = None /\ tiers # <<>>) => tiers[1] = "file"

\* C6 (amended): the context store is queried only when a store is configured
\* and the request carries a non-empty report_id; without one the resolver
\* goes straight to the file tier.  The tools-prompt store is tried whenever a
\* store is configured, whether or not the request carries a prompt_id: an
\* absent prompt_id is replaced by 'default_tools_prompt'.
C6_StoreOnlyWhen ==
    /\ req.endpoint = "context"
       => /\ (storeQueries > 0 \/ fetched # NotFetched)
                => (StoreConfigured /\ req.arg \notin {None, <<>>})
          /\ (req.arg \in {None, <<>>} /\ tiers # <<>>) => tiers[1] = "file"
    /\ req.endpoint = "tools_prompt"
       => /\ storeQueries > 0 => StoreConfigured
          /\ (StoreConfigured /\ tiers # <<>>) => tiers[1] = "store"
          /\ (~StoreConfigured /\ tiers # <<>>) => tiers[1] = "file"
          /\ (req.arg = None /\ pc \notin {"require_auth", "tools_prompt"}
                 /\ granted = "granted") => ident = DefaultPromptId
    /\ storeQueries > 0 => StoreAvailable(TRUE)

\* A tools-prompt request without prompt_id queried the store.
C6_Witness ==
    /\ req.endpoint = "tools_prompt"
    /\ req.arg = None
    /\ ident = DefaultPromptId
    /\ storeQueries = 1
    /\ fetched.result = "row"

FromStore == Answered /\ tiers = <<"store">>
\* the JSON column as decoded by the loader
StoredJson == DecodedColumn(fetched.row.c2).val

Blank(x) == x \in {PyNone, PyStr(""), PyDict(""), PyList("")}

FieldNames ==
    IF req.endpoint = "context"
    THEN {"system", "context", "instructions"}
    ELSE {"tools_system_prompt", "recommendation_instructions", "tools_data"}

Populated(d) ==
    /\ d.top = "dict"
    /\ \A f \in FieldNames : f \in DOMAIN d /\ d[f] # PyNone

\* C8 (as stated): every document the resolver returns, whichever tier
\* produced it, has all three top-level fields of its kind populated.
C8_AsStated == Answered => Populated(doc)

\* C8 (amended): every document the resolver returns from the store tier or
\* as the built-in default has all three top-level fields of its kind
\* populated; a document from the file tier is the file's JSON value as it
\* is, whatever fields it has.
C8_Populated ==
    Answered
    => /\ tiers[Len(tiers)] # "file" => Populated(doc)
       /\ tiers[Len(tiers)] = "file" => doc = fileFound.doc

\* A store record whose three columns are null, resolved.
C8_Witness ==
    /\ FromStore
    /\ fetched.row = NullRow
    /\ Populated(doc)

-----------------------------------------------------------------------------
(* Claims about the streaming relay (Spec) *)

\* the non-empty lines among those the upstream has sent so far
NonEmpty(lines) == SelectSeq(lines, LAMBDA l : l # <<>>)

\* the relayed chunks are the given lines, each followed by a newline, as the
\* bytes the caller receives
RelayedExactly(lines) ==
    /\ Len(out) = Len(lines)
    /\ \A i \in 1..Len(out) :
          /\ out[i].kind = "line"
          /\ utf8_encode(out[i].text) = lines[i] \o <<Newline>>

\* C9: streaming relay preserves line order: when the upstream answers with
\* success and sends the non-empty lines L1..Ln, the relayed output is exactly
\* L1\n, ..., Ln\n in the same order, no line reordered, dropped, duplicated
\* or altered (at every moment of the relay, for the lines sent so far).
C9_AsStated ==
    (req.endpoint = "chat" /\ upStatus = 200 /\ upstream # "failed")
    => RelayedExactly(NonEmpty(upLines))

\* C9, restricted to upstream lines that are valid UTF-8: what the relay does
\* achieve.
C9_ValidLinesRelayed ==
    (/\ req.endpoint = "chat" /\ upStatus = 200 /\ upstream # "failed"
     /\ \A i \in 1..Len(upLines) : utf8_decode(upLines[i]).ok)
    => RelayedExactly(NonEmpty(upLines))

\* C10: in streaming mode, when the upstream responds with a status other than
\* 200 the relay emits exactly one synthetic error event, which embeds the
\* upstream's raw error body, and then terminates: no upstream content line
\* is read or forwarded, and nothing is raised to the caller (the response
\* stays the 200 event stream).
C10_NonSuccessOneEvent ==
    (req.endpoint = "chat" /\ upStatus \notin {0, 200})
    => /\ upLines = <<>>
       /\ \A i \in 1..Len(out) : out[i].kind # "line"
       /\ status = 200 /\ respKind = "stream"
       /\ upstreamCalls = 1
       /\ pc \in {"error_text", "done"}
       /\ pc = "error_text" => out = <<>>
       /\ pc = "done"
             => /\ Len(out) = 1
                /\ upstream = "ended" => out[1] = ErrorChunk("api_error", upText)

\* The upstream answered 500 with a body and the relay has terminated.
C10_Witness ==
    /\ req.endpoint = "chat"
    /\ pc = "done"
    /\ upStatus = 500
    /\ upText = "upstream error body"
    /\ out = <<ErrorChunk("api_error", "upstream error body")>>

-----------------------------------------------------------------------------
(* Claims about the synchronous relay and the upstream call (Spec) *)

\* a synchronous request whose body carries an empty messages sequence
SyncEmptyMessages == req.endpoint = "chat_sync" /\ req.json.messages = "empty"
Credential == ~Falsy(DEEPSEEK_API_KEY)

\* C11 (as stated): the synchronous relay on an empty messages sequence
\* returns a 400-class error without any upstream call, whatever the rest of
\* the request and the configuration.
C11_AsStated ==
    (SyncEmptyMessages /\ pc = "done")
    => (status \in 400..499 /\ upstreamCalls = 0)

\* C11 (amended): the synchronous relay on an empty messages sequence never
\* calls the upstream; an authenticated request is answered 400 when an
\* upstream credential is configured and 500 when none is.
C11_EmptyMessagesRejected ==
    SyncEmptyMessages
    => /\ upstreamCalls = 0 /\ upstream = "none"
       /\ pc \in {"require_auth", "chat_sync", "done"}
       /\ pc = "done"
             => /\ respKind = "error"
                /\ granted = "denied" => status = 401
                /\ (granted = "granted" /\ Credential) => status = 400
                /\ (granted = "granted" /\ ~Credential) => status = 500

\* An authenticated synchronous request with empty messages was answered 400.
C11_Witness ==
    /\ SyncEmptyMessages
    /\ granted = "granted"
    /\ Credential
    /\ pc = "done"
    /\ status = 400
    /\ upstreamCalls = 0

\* C12: with no upstream credential configured, an authenticated request to
\* /api/chat/sync or /api/chat is answered 500 with an error field and no
\* upstream call is made, for every request body.
C12_NoCredential ==
    (req.endpoint \in {"chat", "chat_sync"} /\ granted = "granted" /\ ~Credential)
    => /\ upstreamCalls = 0 /\ upstream = "none" /\ out = <<>>
       /\ pc \in {req.endpoint, "done"}
       /\ pc = "done"
             => /\ status = 500
                /\ respKind = "error"
                /\ payload.error = "api key not configured"

\* A streaming request with well-formed messages answered 500 for want of a
\* credential.
C12_Witness ==
    /\ req.endpoint = "chat"
    /\ req.json.messages = "messages"
    /\ granted = "granted"
    /\ ~Credential
    /\ pc = "done"
    /\ status = 500
    /\ upstreamCalls = 0

\* C13: in synchronous mode, when the upstream responds with a status other
\* than 200 the caller receives an error response whose HTTP status equals
\* the upstream status code and whose error field embeds the upstream's raw
\* body; the failure is never turned into a success payload.
C13_SyncStatusPropagated ==
    (req.endpoint = "chat_sync" /\ upStatus \notin {0, 200})
    => /\ pc = "done"
       /\ status = upStatus
       /\ respKind = "error"
       /\ payload.error = "api_error" /\ payload.detail = upText
       /\ payload.content = "" /\ payload.usage = ""
       /\ upstreamCalls = 1

\* The upstream answered 429 with a body, and the caller got 429 with it.
C13_Witness ==
    /\ req.endpoint = "chat_sync"
    /\ pc = "done"
    /\ upStatus = 429
    /\ upText = "upstream error body"
    /\ status = 429
    /\ payload.detail = "upstream error body"

\* the upstream's answers that are JSON objects, whatever members they lack
StructuredResults == SyncResults \ {"not json"}

\* C14: in synchronous mode, on upstream success the response is 200
\* {content, usage}: content is the first choice's message content, or the
\* empty string whenever that content is structurally absent (no choices key,
\* empty choices list, choice without message, message without content);
\* usage is the upstream usage object, or an empty object when absent.
C14_AsStated ==
    (/\ req.endpoint = "chat_sync" /\ pc = "done"
     /\ upStatus = 200 /\ upText \in StructuredResults)
    => /\ status = 200
       /\ respKind = "content"
       /\ payload.content =
             IF upText \in {"content and usage", "no usage"} THEN "answer" ELSE ""
       /\ payload.usage = IF upText = "content and usage" THEN "usage" ELSE "{}"

\* C14 for every answer but an empty choices list: what the code achieves.
C14_ExceptEmptyChoices ==
    (/\ req.endpoint = "chat_sync" /\ pc = "done"
     /\ upStatus = 200 /\ upText \in StructuredResults \ {"empty choices"})
    => /\ status = 200
       /\ respKind = "content"
       /\ payload.content =
             IF upText \in {"content and usage", "no usage"} THEN "answer" ELSE ""
       /\ payload.usage = IF upText = "content and usage" THEN "usage" ELSE "{}"

\* the category of a transport failure, by its cause: the upstream took
\* longer than the timeout allows, the connection failed, or anything else
FailureCategory ==
    IF stalled # "none" THEN "timeout"
    ELSE IF raised = "ConnectionError" THEN "connection"
    ELSE "other"

\* C15: in synchronous mode each transport failure category maps to its own
\* caller-visible status: an upstream timeout yields 504, a connection failure
\* 502, any other unexpected failure 500; all three carry an error field.
C15_AsStated ==
    (req.endpoint = "chat_sync" /\ raised # "none")
    => /\ pc = "done"
       /\ respKind = "error"
       /\ payload.error # "" /\ payload.content = ""
       /\ FailureCategory = "timeout" => status = 504
       /\ FailureCategory = "connection" => status = 502
       /\ FailureCategory = "other" => status = 500

\* What the code does: the status follows the class of the exception raised
\* (Timeout 504, ConnectionError 502, any other 500), which is the category
\* of the failure except for a stall while the body is read.
C15_SyncFailureStatus ==
    (req.endpoint = "chat_sync" /\ raised # "none")
    => /\ pc = "done"
       /\ respKind = "error"
       /\ payload.error # "" /\ payload.content = ""
       /\ raised = "Timeout" => status = 504
       /\ raised = "ConnectionError" => status = 502
       /\ raised \notin {"Timeout", "ConnectionError"} => status = 500

\* A connection failure answered 502.
C15_Witness ==
    /\ req.endpoint = "chat_sync"
    /\ raised = "ConnectionError"
    /\ payload.error = "network_error"
    /\ status = 502
    /\ upstreamCalls = 1

-----------------------------------------------------------------------------
(* Claims about failures of the streaming relay (Spec) *)

\* C16: in streaming mode a transport failure at any point (before the first
\* line or after some lines were forwarded) makes the relay emit exactly one
\* synthetic error event, of the kind matching the failure category
\* (timeout-error for a timeout, network-error for a connection failure,
\* generic-error with the failure's description otherwise), and terminate:
\* the event is the last chunk and everything before it is a forwarded line.
C16_AsStated ==
    (req.endpoint = "chat" /\ raised \in Failures)
    => /\ pc = "done"
       /\ out # <<>>
       /\ \A i \in 1..(Len(out) - 1) : out[i].kind = "line"
       /\ FailureCategory = "timeout"
             => out[Len(out)] = ErrorChunk("timeout_error", "")
       /\ FailureCategory = "connection"
             => out[Len(out)] = ErrorChunk("network_error", "")
       /\ FailureCategory = "other"
             => out[Len(out)] = ErrorChunk("server_error", "Exception")

\* What the code does: one event, the last chunk, after the lines already
\* forwarded, of the kind matching the class of the exception raised, which
\* is the category of the failure except for a stall while the body is read.
C16_StreamFailureEvent ==
    (req.endpoint = "chat" /\ raised \in Failures)
    => /\ pc = "done"
       /\ upstream = "failed"
       /\ status = 200 /\ respKind = "stream"
       /\ out # <<>>
       /\ \A i \in 1..(Len(out) - 1) : out[i].kind = "line"
       /\ raised = "Timeout" => out[Len(out)] = ErrorChunk("timeout_error", "")
       /\ raised = "ConnectionError"
             => out[Len(out)] = ErrorChunk("network_error", "")
       /\ raised = "Exception"
             => out[Len(out)] = ErrorChunk("server_error", "Exception")

\* A connection failure after two lines were forwarded.
C16_Witness ==
    /\ req.endpoint = "chat"
    /\ raised = "ConnectionError"
    /\ Len(out) = 3
    /\ out[1].kind = "line" /\ out[2].kind = "line"
    /\ out[3] = ErrorChunk("network_error", "")
    /\ pc = "done"

-----------------------------------------------------------------------------
(* Claims about the request sent to the upstream (Spec) *)

StreamCalled == req.endpoint = "chat" /\ upstreamCalls > 0

\* C17 (as stated): /api/chat always calls the upstream with stream=true,
\* whatever 'stream' value the caller's body carries, with temperature 0.7 and
\* max_tokens 2000 when the caller leaves them unspecified, and with the
\* caller's messages unchanged.
C17_AsStated ==
    StreamCalled
    => /\ upstreamReq.stream = "true"
       /\ upstreamReq.messages = req.json.messages
       /\ upstreamReq.temperature =
             IF req.json.temperature = "absent" THEN "0.7" ELSE req.json.temperature
       /\ upstreamReq.max_tokens =
             IF req.json.max_tokens = "absent" THEN "2000" ELSE req.json.max_tokens

\* C17 (amended): /api/chat calls the upstream with the caller's 'stream'
\* value, or stream=true when the caller leaves it unspecified, with
\* temperature 0.7 and max_tokens 2000 when the caller leaves them
\* unspecified (the caller's values otherwise), and with the caller's
\* messages unchanged.
C17_UpstreamRequest ==
    StreamCalled
    => /\ upstreamReq.stream =
             IF req.json.stream = "absent" THEN "true" ELSE req.json.stream
       /\ upstreamReq.messages = req.json.messages
       /\ req.json.messages = "messages"
       /\ upstreamReq.temperature =
             IF req.json.temperature = "absent" THEN "0.7" ELSE req.json.temperature
       /\ upstreamReq.max_tokens =
             IF req.json.max_tokens = "absent" THEN "2000" ELSE req.json.max_tokens

\* A caller that set nothing but messages: the upstream got the defaults.
C17_Witness ==
    /\ StreamCalled
    /\ req.json.stream = "absent"
    /\ req.json.temperature = "absent"
    /\ upstreamReq.stream = "true"
    /\ upstreamReq.temperature = "0.7"
    /\ upstreamReq.max_tokens = "2000"

-----------------------------------------------------------------------------
(* Claims about the default context (Spec) *)

\* the title the claim names, as code points
C18_Title ==
    <<31354, 38388, 36716, 24405, 32452, 28145,
      24230, 20998, 26512, 25253, 21578>>

\* an authenticated GET /api/context answered with no store configured and no
\* context file present
NoStoreNoFile ==
    /\ req.endpoint = "context" /\ granted = "granted" /\ pc = "done"
    /\ DB_TYPE = "file"
    /\ fileFound.state = "absent"

\* C18: an authenticated GET /api/context with no store configured and no
\* context file present returns 200 with the built-in default context
\* document (fields system, context, instructions; context.report_metadata
\* .title is the title named above), whether or not a report_id is supplied.
C18_DefaultContext ==
    NoStoreNoFile
    => /\ status = 200 /\ respKind = "json"
       /\ doc.top = "dict"
       /\ {"system", "context", "instructions"} \subseteq DOMAIN doc
       /\ doc = DEFAULT_CONTEXT_DATA
       /\ report_metadata_title(doc.context) = C18_Title
       /\ storeQueries = 0 /\ fileReads = 0

\* The same with a report_id supplied.
C18_Witness ==
    /\ NoStoreNoFile
    /\ req.arg = <<"r", "1">>
    /\ doc = DEFAULT_CONTEXT_DATA
    /\ status = 200

-----------------------------------------------------------------------------
(* Claims about the number of upstream calls (Spec) *)

\* the request passed the key check and the validation of either chat view
Validated ==
    /\ req.endpoint \in {"chat", "chat_sync"}
    /\ granted = "granted"
    /\ Credential
    /\ req.json.present /\ req.json.messages = "messages"

\* C19: no request is ever retried: while one chat request (streaming or
\* synchronous) is handled at most one upstream HTTP call is issued, whatever
\* failure occurs (non-success status, timeout, connection failure, other
\* error), and a request rejected by validation issues none.
C19_NoRetry ==
    /\ upstreamCalls <= 1
    /\ ~Validated => upstreamCalls = 0
    /\ (raised # "none" \/ upStatus \notin {0, 200}) => upstreamCalls = 1
    /\ (pc = "done" /\ Validated) => upstreamCalls = 1

\* A streaming request whose one upstream call timed out.
C19_Witness ==
    /\ req.endpoint = "chat"
    /\ pc = "done"
    /\ raised = "Timeout"
    /\ out = <<ErrorChunk("timeout_error", "")>>
    /\ upstreamCalls = 1

-----------------------------------------------------------------------------
(* Claims about the caller's disconnect (Spec) *)

\* C20: if the caller disconnects while a streaming relay is in progress, the
\* upstream connection opened for that request is closed: after the
\* disconnect there is no reachable state in which the relay has stopped but
\* its upstream connection remains open, and no further upstream line is read.
C20_AsStated ==
    (req.endpoint = "chat" /\ caller.gone)
    => /\ Len(upLines) = caller.read
       /\ pc = "done" => upstream # "open"

-----------------------------------------------------------------------------
(* Claims about upstream stalls (Spec) *)

\* the last thing a chat request told its caller is the timeout error: the
\* timeout event of the streaming view, status 504 of the synchronous one
TimeoutPath ==
    /\ req.endpoint = "chat"
          => out # <<>> /\ out[Len(out)] = ErrorChunk("timeout_error", "")
    /\ req.endpoint = "chat_sync"
          => status = 504 /\ payload.error = "timeout_error"

\* C21: a chat request never hangs on the upstream: if the upstream stalls at
\* any phase (connect, response headers, or between body lines) beyond the
\* fixed 60-unit bound, the request takes the timeout error path (timeout
\* event in streaming mode, 504 in synchronous mode) and terminates.
C21_AsStated ==
    (req.endpoint \in {"chat", "chat_sync"} /\ stalled # "none")
    => pc = "done" /\ TimeoutPath

\* What the code does with a stall: the request ends at once, on the timeout
\* path when the stall came before the body and on the connection-failure
\* path (network event, 502) when it came while the body was read.
C21_StallEndsRequest ==
    (req.endpoint \in {"chat", "chat_sync"} /\ stalled # "none")
    => /\ pc = "done"
       /\ upstream = "failed"
       /\ raised = StallRaises(stalled)
       /\ stalled \in PostPhases => TimeoutPath
       /\ stalled \in BodyPhases
             => /\ ~TimeoutPath
                /\ req.endpoint = "chat"
                      => out[Len(out)] = ErrorChunk("network_error", "")
                /\ req.endpoint = "chat_sync" => status = 502

\* The upstream stalled after two lines of a streaming body were forwarded.
C21_StalledBetweenLines ==
    /\ req.endpoint = "chat"
    /\ stalled = "body"
    /\ Len(out) = 3

-----------------------------------------------------------------------------
(* Claims about the status of synchronous responses (Spec) *)

\* the synchronous view has answered
SyncAnswered == req.endpoint = "chat_sync" /\ pc = "done"

\* the body of the response is the success payload {content, usage}
SuccessPayload ==
    /\ respKind = "content"
    /\ payload.error = ""
    /\ payload.usage # ""

\* C22: for every /api/chat/sync response the HTTP status is 200 if and only
\* if the body is the success payload {content, usage}, and every response
\* whose body carries an error field has a non-success (4xx/5xx) status, for
\* every upstream status code and every failure.
C22_AsStated ==
    SyncAnswered
    => /\ status = 200 <=> SuccessPayload
       /\ respKind = "error" => status \in 400..599

\* What the code does: 200 goes with the success payload and with nothing
\* else, and an error body goes with 401, 400, 500, 504, 502 or whatever
\* status other than 200 the upstream answered with.
C22_ErrorBodyNot200 ==
    SyncAnswered
    => /\ status = 200 <=> SuccessPayload
       /\ respKind = "error"
             => \/ status \in {400, 401, 500, 502, 504}
                \/ status = upStatus /\ UpstreamFailed(upStatus)

====
